---- MODULE Spec2Model ----
(***************************************************************************)
(* A model of xsukax_CS_Watermark_Remover.py: the signature matcher, the   *)
(* four pruning passes of XsukaxRemover, the content-stream rewriter       *)
(* (_clean_content_references) and the export half of process.             *)
(*                                                                         *)
(* Text is a sequence of one-character strings, so that every regular      *)
(* expression and every substring test of the source is computed           *)
(* character by character, the way the source computes it.                 *)
(***************************************************************************)
EXTENDS Integers, Sequences, FiniteSets, TLC

VARIABLES
    pc,         \* control location of the operation under way
    pdf,        \* the document: [pages, info], mutated in place by the passes
    orig,       \* the document as it was loaded (never changes)
    page_num,   \* the running pass's position in pdf.pages, 1-based
    to_remove,  \* the running pass's to_remove list for the current page
    removed,    \* the running pass's counter "removed"
    calls,      \* the calls of _clean_content_references made so far
    writes,     \* the content streams the text pass has written, in order
    fmt,        \* self.export_format: "pdf", "png", "tif", or any other string
    input_exists,   \* os.path.exists(input_path)
    stats,      \* self.stats
    temp,       \* the file at temp_pdf
    pdf_open,   \* the pikepdf document is open
    doc_open,   \* the fitz document of the export is open
    exp_i,      \* the export loop's i, as a page number from 1
    acc,        \* the export's files (PNG) or images (TIFF), as page numbers
    events,     \* what the collaborators were asked and answered
    output,     \* what the output files hold
    export_ok,  \* the export gave process a non-empty result
    result,     \* what process returns
    data,       \* rewriter specification: the stream text given to the rewriter
    keys,       \* rewriter specification: removed_keys, a sequence of key strings
    out,        \* rewriter specification: result of the first application
    out2        \* rewriter specification: result of applying it to its own output

docVars == <<pdf, orig>>
passVars == <<page_num, to_remove, removed, calls, writes>>
rwVars == <<data, keys, out, out2>>
procVars == <<fmt, input_exists, stats, temp, pdf_open, doc_open, exp_i, acc, events,
              output, export_ok, result>>
vars == <<pc, docVars, passVars, rwVars, procVars>>

(***************************************************************************)
(* Characters and character classes of Python's re module.                 *)
(***************************************************************************)
Digits == {"0", "1", "2", "3", "4", "5", "6", "7", "8", "9"}

LowerLetters ==
    {"a", "b", "c", "d", "e", "f", "g", "h", "i", "j", "k", "l", "m",
     "n", "o", "p", "q", "r", "s", "t", "u", "v", "w", "x", "y", "z"}

UpperLetters ==
    {"A", "B", "C", "D", "E", "F", "G", "H", "I", "J", "K", "L", "M",
     "N", "O", "P", "Q", "R", "S", "T", "U", "V", "W", "X", "Y", "Z"}

\* \s of a str pattern, and the characters str.strip() strips, among the
\* characters of latin-1: the ASCII white space with the vertical tab, the
\* separators 0x1C to 0x1F, the next-line character 0x85 and the no-break
\* space 0xA0
IsSpace(c) ==
    c \in {" ", "\n", "\t", "\r", "\f", "", "", "", "", "",
           "", " "}

\* \w of a str pattern, the class \b is defined by, among the characters
\* of latin-1: the ASCII letters, digits and "_", and the 71 letters and
\* numeric characters above 0x7F
IsWord(c) ==
    \/ c \in Digits \cup LowerLetters \cup UpperLetters \cup {"_"}
    \/ c \in {"ª", "²", "³", "µ", "¹", "º", "¼", "½", "¾", "À", "Á", "Â", "Ã",
            "Ä", "Å", "Æ", "Ç", "È", "É", "Ê", "Ë", "Ì", "Í", "Î", "Ï", "Ð",
            "Ñ", "Ò", "Ó", "Ô", "Õ", "Ö", "Ø", "Ù", "Ú", "Û", "Ü", "Ý", "Þ",
            "ß", "à", "á", "â", "ã", "ä", "å", "æ", "ç", "è", "é", "ê", "ë",
            "ì", "í", "î", "ï", "ð", "ñ", "ò", "ó", "ô", "õ", "ö", "ø", "ù",
            "ú", "û", "ü", "ý", "þ", "ÿ"}

\* [\d\.\-\s]
IsNumClass(c) == c \in Digits \cup {".", "-"} \/ IsSpace(c)

\* the literal lit occurs in s at position i
LitAt(lit, s, i) ==
    /\ i >= 1
    /\ i + Len(lit) - 1 <= Len(s)
    /\ \A x \in 1..Len(lit) : s[i + x - 1] = lit[x]

\* first position >= i whose character is not white space (Len(s)+1 if none):
\* where a greedy \s* or \s+ starting at i stops
RECURSIVE SpaceEnd(_, _)
SpaceEnd(s, i) ==
    IF i <= Len(s) /\ IsSpace(s[i]) THEN SpaceEnd(s, i + 1) ELSE i

\* where a greedy [\d\.\-\s]+ starting at i stops
RECURSIVE NumEnd(_, _)
NumEnd(s, i) ==
    IF i <= Len(s) /\ IsNumClass(s[i]) THEN NumEnd(s, i + 1) ELSE i

\* \b at the gap before position i
Boundary(s, i) ==
    LET before == i - 1 >= 1 /\ i - 1 <= Len(s) /\ IsWord(s[i - 1])
        after  == i >= 1 /\ i <= Len(s) /\ IsWord(s[i])
    IN  before # after

(***************************************************************************)
(* The patterns of _clean_content_references, for one key string k.        *)
(* re.escape(k) matches k literally.                                       *)
(***************************************************************************)
\* /k\s+Do at i: position after "Do", or 0
KeyDoAt(k, s, i) ==
    IF LitAt(<<"/">> \o k, s, i)
    THEN LET p == i + 1 + Len(k)
             q == SpaceEnd(s, p)
         IN  IF q > p /\ LitAt(<<"D", "o">>, s, q) THEN q + 2 ELSE 0
    ELSE 0

\* Pattern 1: /k\s+Do\s*
Pat1(k, s, i) ==
    LET e == KeyDoAt(k, s, i) IN IF e > 0 THEN SpaceEnd(s, e) ELSE 0

\* first position >= i holding "Q", or 0
RECURSIVE FirstQ(_, _)
FirstQ(s, i) ==
    IF i > Len(s) THEN 0
    ELSE IF s[i] = "Q" THEN i ELSE FirstQ(s, i + 1)

\* Pattern 2: q\s+[^Q]*?/k\s+Do[^Q]*?Q
\* The two lazy runs take the first j at which the rest of the pattern
\* succeeds; every character between the first white space and j is not Q.
Pat2(k, s, i) ==
    IF i + 1 <= Len(s) /\ s[i] = "q" /\ IsSpace(s[i + 1])
    THEN LET ok(j) == /\ \A x \in (i + 2)..(j - 1) : s[x] # "Q"
                      /\ KeyDoAt(k, s, j) > 0
                      /\ FirstQ(s, KeyDoAt(k, s, j)) > 0
             js == {j \in (i + 2)..Len(s) : ok(j)}
         IN  IF js = {} THEN 0
             ELSE LET j == CHOOSE x \in js : \A y \in js : x <= y
                  IN  FirstQ(s, KeyDoAt(k, s, j)) + 1
    ELSE 0

\* [\d\.\-\s]{n or more, greedy} cm \s+ /k \s+ Do at i. "c" is outside the
\* class, so the run has to end exactly where "cm" starts.
NumCmKeyDo(n, k, s, i) ==
    LET r == NumEnd(s, i)
    IN  IF r - i >= n /\ LitAt(<<"c", "m">>, s, r)
        THEN LET p == r + 2
                 q == SpaceEnd(s, p)
             IN  IF q > p THEN KeyDoAt(k, s, q) ELSE 0
        ELSE 0

\* Pattern 3: [\d\.\-\s]+cm\s+/k\s+Do
Pat3(k, s, i) == NumCmKeyDo(1, k, s, i)

\* Pattern 4: /k\b
Pat4(k, s, i) ==
    IF LitAt(<<"/">> \o k, s, i) /\ Boundary(s, i + 1 + Len(k))
    THEN i + 1 + Len(k) ELSE 0

\* Pattern 5: six runs [\d\.\-\s]+ in a row, then cm\s+/k\s+Do
Pat5(k, s, i) == NumCmKeyDo(6, k, s, i)

\* q\s+Q
PatEmptyQ(s, i) ==
    IF i <= Len(s) /\ s[i] = "q"
    THEN LET q == SpaceEnd(s, i + 1)
         IN  IF q > i + 1 /\ q <= Len(s) /\ s[q] = "Q" THEN q + 1 ELSE 0
    ELSE 0

\* number of "\n" in s[i..j-1]
RECURSIVE CountNL(_, _, _)
CountNL(s, i, j) ==
    IF i >= j THEN 0
    ELSE (IF s[i] = "\n" THEN 1 ELSE 0) + CountNL(s, i + 1, j)

\* last position in i..j-1 holding "\n" (0 if none)
RECURSIVE LastNL(_, _, _)
LastNL(s, i, j) ==
    IF j <= i THEN 0
    ELSE IF s[j - 1] = "\n" THEN j - 1 ELSE LastNL(s, i, j - 1)

\* \n\s*\n\s*\n: both \s* are greedy, so the match runs to the last newline
\* of the white-space run that starts at i
PatBlankLines(s, i) ==
    IF i <= Len(s) /\ s[i] = "\n"
    THEN LET r == SpaceEnd(s, i)
         IN  IF CountNL(s, i, r) >= 3 THEN LastNL(s, i, r) + 1 ELSE 0
    ELSE 0

(***************************************************************************)
(* re.sub(pattern, repl, s) for a pattern that matches no empty string:    *)
(* scan left to right, replace the leftmost match, go on after its end.    *)
(* MatchAt gives the position after the match the engine finds at i, or 0  *)
(* when the pattern does not match at i; the patterns are numbered in the  *)
(* order of the source, 1 to 5 made for key k, 6 and 7 the clean-up.       *)
(***************************************************************************)
MatchAt(pat, k, s, i) ==
    CASE pat = 1 -> Pat1(k, s, i)
      [] pat = 2 -> Pat2(k, s, i)
      [] pat = 3 -> Pat3(k, s, i)
      [] pat = 4 -> Pat4(k, s, i)
      [] pat = 5 -> Pat5(k, s, i)
      [] pat = 6 -> PatEmptyQ(s, i)
      [] pat = 7 -> PatBlankLines(s, i)

RECURSIVE SubFrom(_, _, _, _, _)
SubFrom(pat, k, repl, s, i) ==
    IF i > Len(s) THEN <<>>
    ELSE LET e == MatchAt(pat, k, s, i)
         IN  IF e > 0 THEN repl \o SubFrom(pat, k, repl, s, e)
                      ELSE <<s[i]>> \o SubFrom(pat, k, repl, s, i + 1)

Sub(pat, k, repl, s) == SubFrom(pat, k, repl, s, 1)

\* the five substitutions made for one key, in the order of the source
StripKey(k, s) ==
    LET s1 == Sub(1, k, <<>>, s)
        s2 == Sub(2, k, <<>>, s1)
        s3 == Sub(3, k, <<>>, s2)
        s4 == Sub(4, k, <<>>, s3)
        s5 == Sub(5, k, <<>>, s4)
    IN  s5

\* for key in removed_keys: ...
RECURSIVE StripKeys(_, _)
StripKeys(ks, s) ==
    IF ks = <<>> THEN s
    ELSE StripKeys(Tail(ks), StripKey(Head(ks), s))

\* the two clean-up substitutions that follow the loop over the keys
CleanUp(s) ==
    LET s1 == Sub(6, <<>>, <<>>, s)
    IN  Sub(7, <<>>, <<"\n", "\n">>, s1)

\* the text after all substitutions
CleanedText(ks, s) == CleanUp(StripKeys(ks, s))

\* "if len(data) != original_length": the stream is written
StreamWritten(ks, s) == Len(CleanedText(ks, s)) # Len(s)

\* strip_references: the stream's text after the rewriter has handled it
\* (decode and encode as latin-1 map each byte to the character of the same
\* code and back, so the text stands for the bytes)
StripReferences(ks, s) ==
    IF StreamWritten(ks, s) THEN CleanedText(ks, s) ELSE s

(***************************************************************************)
(* Signature matcher: Config.WATERMARK_KEYWORDS, Config.WATERMARK_URLS,    *)
(* contains_watermark and is_watermark_url.                                *)
(***************************************************************************)
\* the characters of latin-1 that str.lower() changes
UpperSeq ==
    <<"A", "B", "C", "D", "E", "F", "G", "H", "I", "J", "K", "L", "M",
      "N", "O", "P", "Q", "R", "S", "T", "U", "V", "W", "X", "Y", "Z",
      "À", "Á", "Â", "Ã", "Ä", "Å", "Æ", "Ç", "È", "É", "Ê", "Ë", "Ì",
      "Í", "Î", "Ï", "Ð", "Ñ", "Ò", "Ó", "Ô", "Õ", "Ö", "Ø", "Ù", "Ú",
      "Û", "Ü", "Ý", "Þ">>

\* what str.lower() makes of them, in the same order
LowerSeq ==
    <<"a", "b", "c", "d", "e", "f", "g", "h", "i", "j", "k", "l", "m",
      "n", "o", "p", "q", "r", "s", "t", "u", "v", "w", "x", "y", "z",
      "à", "á", "â", "ã", "ä", "å", "æ", "ç", "è", "é", "ê", "ë", "ì",
      "í", "î", "ï", "ð", "ñ", "ò", "ó", "ô", "õ", "ö", "ø", "ù", "ú",
      "û", "ü", "ý", "þ">>

\* str.lower() on one character
LowerChar(c) ==
    IF \E i \in 1..Len(UpperSeq) : UpperSeq[i] = c
    THEN LowerSeq[CHOOSE i \in 1..Len(UpperSeq) : UpperSeq[i] = c]
    ELSE c

\* str.lower()
Lower(s) == [i \in 1..Len(s) |-> LowerChar(s[i])]

\* "sub in s"
Contains(s, sub) == \E i \in 1..(Len(s) - Len(sub) + 1) : LitAt(sub, s, i)

WATERMARK_KEYWORDS ==
    << <<"c", "a", "m", "s", "c", "a", "n", "n", "e", "r">>,     \* camscanner
       <<"C", "a", "m", "S", "c", "a", "n", "n", "e", "r">>,     \* CamScanner
       <<"C", "A", "M", "S", "C", "A", "N", "N", "E", "R">>,     \* CAMSCANNER
       <<"i", "n", "t", "s", "i", "g">>,                         \* intsig
       <<"I", "n", "t", "s", "i", "g">>,                         \* Intsig
       <<"I", "N", "T", "S", "I", "G">>,                         \* INTSIG
       <<"w", "w", "w", ".", "c", "a", "m", "s", "c", "a", "n", "n", "e", "r",
         ".", "c", "o", "m">>,                                   \* www.camscanner.com
       <<"c", "a", "m", "s", "c", "a", "n", "n", "e", "r", ".", "c", "o", "m">>,
       <<"i", "n", "t", "s", "i", "g", ".", "n", "e", "t">>,     \* intsig.net
       <<"i", "n", "t", "s", "i", "g", ".", "c", "o", "m">>,     \* intsig.com
       <<"S", "c", "a", "n", "n", "e", "d", " ", "w", "i", "t", "h", " ",
         "C", "a", "m", "S", "c", "a", "n", "n", "e", "r">> >>   \* Scanned with CamScanner

WATERMARK_URLS ==
    << <<"c", "a", "m", "s", "c", "a", "n", "n", "e", "r", ".", "c", "o", "m">>,
       <<"i", "n", "t", "s", "i", "g", ".", "n", "e", "t">>,
       <<"i", "n", "t", "s", "i", "g", ".", "c", "o", "m">> >>

\* contains_watermark(text); an empty text is falsy
contains_watermark(text) ==
    IF text = <<>> THEN FALSE
    ELSE \E n \in 1..Len(WATERMARK_KEYWORDS) :
            Contains(Lower(text), Lower(WATERMARK_KEYWORDS[n]))

\* is_watermark_url(url): the patterns are compared as they are written
is_watermark_url(url) ==
    IF url = <<>> THEN FALSE
    ELSE \E n \in 1..Len(WATERMARK_URLS) :
            Contains(Lower(url), WATERMARK_URLS[n])

(***************************************************************************)
(* The document.                                                           *)
(*   pdf.pages[p].annots   = [kind, items]: /Annots absent, an Array of    *)
(*                           annotations, or some other object             *)
(*   an annotation         = [isDict, hasA, aIsDict, hasURI, uri,          *)
(*                            hasContents, contents]                       *)
(* The resources and the content streams of a page are described with the  *)
(* image pass.                                                             *)
(***************************************************************************)
NoAnnots == [kind |-> "absent", items |-> <<>>]

NoResources == [kind |-> "absent", xkind |-> "absent", table |-> <<>>]

NoContents == [kind |-> "absent", streams |-> <<>>]

EmptyPage == [annots |-> NoAnnots, res |-> NoResources, contents |-> NoContents]

NoInfo == [kind |-> "absent", fields |-> <<>>]

\* shared: the pages whose /Resources /XObject is one and the same
\* dictionary object (empty when every page has a dictionary of its own)
EmptyPdf == [pages |-> <<>>, info |-> NoInfo, shared |-> {}]

\* the variables of process while an operation is studied on its own
ProcessIdle ==
    /\ fmt = "pdf"
    /\ input_exists = TRUE
    /\ stats = [pages |-> 0, annotations |-> 0, images |-> 0, text_blocks |-> 0,
                metadata |-> 0]
    /\ temp = "absent"
    /\ pdf_open = TRUE
    /\ doc_open = FALSE
    /\ exp_i = 1
    /\ acc = <<>>
    /\ events = <<>>
    /\ output = <<>>
    /\ export_ok = FALSE
    /\ result = "pending"

NumPages == Len(pdf.pages)

\* s without its element at position i (del s[i], 1-based)
DelAt(s, i) == [j \in 1..(Len(s) - 1) |-> IF j < i THEN s[j] ELSE s[j + 1]]

(***************************************************************************)
(* remove_annotations                                                      *)
(***************************************************************************)
\* the body of the loop over annots: the annotation's index goes to to_remove
AnnotIsWatermark(a) ==
    IF ~a.isDict THEN FALSE
    ELSE IF a.hasA /\ a.aIsDict /\ a.hasURI /\ is_watermark_url(a.uri)
         THEN TRUE
         ELSE a.hasContents /\ contains_watermark(a.contents)

\* to_remove after the loop over enumerate(annots): positions, ascending
RECURSIVE AnnotIndices(_, _)
AnnotIndices(items, i) ==
    IF i > Len(items) THEN <<>>
    ELSE (IF AnnotIsWatermark(items[i]) THEN <<i>> ELSE <<>>)
         \o AnnotIndices(items, i + 1)

\* "if Name.Annots not in page: continue" and
\* "if not isinstance(annots, Array): continue"
AnnotSkipPage ==
    /\ pc = "annot_page"
    /\ page_num <= NumPages
    /\ pdf.pages[page_num].annots.kind # "array"
    /\ page_num' = page_num + 1
    /\ UNCHANGED <<pc, docVars, to_remove, removed, calls, writes, rwVars, procVars>>

\* the loop that fills to_remove
AnnotScan ==
    /\ pc = "annot_page"
    /\ page_num <= NumPages
    /\ pdf.pages[page_num].annots.kind = "array"
    /\ to_remove' = AnnotIndices(pdf.pages[page_num].annots.items, 1)
    /\ pc' = "annot_delete"
    /\ UNCHANGED <<docVars, page_num, removed, calls, writes, rwVars, procVars>>

\* the deletions made in the order of to_remove instead of reversed
AnnotDeleteForward ==
    /\ pc = "annot_delete"
    /\ to_remove # <<>>
    /\ LET i == Head(to_remove)
       IN  pdf' = [pdf EXCEPT !.pages[page_num].annots.items = DelAt(@, i)]
    /\ to_remove' = Tail(to_remove)
    /\ removed' = removed + 1
    /\ UNCHANGED <<pc, orig, page_num, calls, writes, rwVars, procVars>>

\* one turn of "for i in reversed(to_remove): del annots[i]; removed += 1"
AnnotDelete ==
    /\ pc = "annot_delete"
    /\ to_remove # <<>>
    /\ LET i == to_remove[Len(to_remove)]
       IN  pdf' = [pdf EXCEPT !.pages[page_num].annots.items = DelAt(@, i)]
    /\ to_remove' = SubSeq(to_remove, 1, Len(to_remove) - 1)
    /\ removed' = removed + 1
    /\ UNCHANGED <<pc, orig, page_num, calls, writes, rwVars, procVars>>

\* the deletions of this page are done: next page
AnnotNextPage ==
    /\ pc = "annot_delete"
    /\ to_remove = <<>>
    /\ page_num' = page_num + 1
    /\ pc' = "annot_page"
    /\ UNCHANGED <<docVars, to_remove, removed, calls, writes, rwVars, procVars>>

\* "return removed"
AnnotReturn ==
    /\ pc = "annot_page"
    /\ page_num > NumPages
    /\ pc' = "annot_done"
    /\ UNCHANGED <<docVars, passVars, rwVars, procVars>>

NextAnnot ==
    \/ AnnotSkipPage
    \/ AnnotScan
    \/ AnnotDelete
    \/ AnnotNextPage
    \/ AnnotReturn

(***************************************************************************)
(* remove_watermark_images and _clean_content_references.                  *)
(*   pdf.pages[p].res      = [kind, xkind, table]: /Resources absent, a    *)
(*                           dictionary, or an object that is none         *)
(*                           ("malformed"); /XObject absent or a           *)
(*                           dictionary; table maps each key of /XObject   *)
(*                           to its object. A key is the string that       *)
(*                           list(xobjects.keys()) holds for it, which is  *)
(*                           the name as written in the PDF, "/" included. *)
(*   an XObject            = [subtype, hasDims, width, height]             *)
(*   pdf.pages[p].contents = [kind, streams]: /Contents absent, one        *)
(*                           stream, or an Array of entries                *)
(*   an entry of /Contents = [readable, text]: readable is FALSE for an    *)
(*                           entry that has no read_bytes or whose         *)
(*                           read_bytes raises                             *)
(***************************************************************************)
MAIN_CONTENT_THRESHOLD == 1000

\* the threshold taken as a strict lower bound: 1000 by 1000 is no main image
IsRemovalCandidateStrict(xobj) ==
    IF xobj.subtype # "Image" THEN FALSE
    ELSE IF ~xobj.hasDims THEN FALSE
    ELSE LET is_main == /\ xobj.width > MAIN_CONTENT_THRESHOLD
                        /\ xobj.height > MAIN_CONTENT_THRESHOLD
         IN  ~is_main

\* the body of "for key in all_keys": key is appended to to_remove
IsRemovalCandidate(xobj) ==
    IF xobj.subtype # "Image" THEN FALSE        \* continue
    ELSE IF ~xobj.hasDims THEN FALSE            \* int(None) raises: continue
    ELSE LET is_main == /\ xobj.width >= MAIN_CONTENT_THRESHOLD
                        /\ xobj.height >= MAIN_CONTENT_THRESHOLD
         IN  ~is_main

\* the orders in which a set can be listed
RECURSIVE Orders(_)
Orders(S) ==
    IF S = {} THEN {<<>>}
    ELSE UNION { { <<x>> \o o : o \in Orders(S \ {x}) } : x \in S }

\* the elements of a sequence
Range(s) == {s[i] : i \in 1..Len(s)}

\* _clean_content_references(page, removed_keys) on one entry of /Contents
CleanStream(st, ks) ==
    IF ~st.readable THEN st
    ELSE [st EXCEPT !.text = StripReferences(ks, @)]

\* _clean_content_references(page, removed_keys): the page's /Contents after
CleanContents(contents, ks) ==
    IF contents.kind = "absent" THEN contents
    ELSE [contents EXCEPT !.streams =
            [n \in 1..Len(contents.streams) |-> CleanStream(contents.streams[n], ks)]]

\* "if Name.Resources not in page: continue" and
\* "if Name.XObject not in resources: continue"
ImgSkipPage ==
    /\ pc = "img_page"
    /\ page_num <= NumPages
    /\ \/ pdf.pages[page_num].res.kind = "absent"
       \/ /\ pdf.pages[page_num].res.kind = "dict"
          /\ pdf.pages[page_num].res.xkind = "absent"
    /\ page_num' = page_num + 1
    /\ UNCHANGED <<pc, docVars, to_remove, removed, calls, writes, rwVars, procVars>>

\* the loop over all_keys that fills to_remove; all_keys lists a set, in an
\* order the run does not fix
ImgScan ==
    /\ pc = "img_page"
    /\ page_num <= NumPages
    /\ pdf.pages[page_num].res.kind = "dict"
    /\ pdf.pages[page_num].res.xkind = "dict"
    /\ LET table == pdf.pages[page_num].res.table
       IN  to_remove' \in Orders({k \in DOMAIN table : IsRemovalCandidate(table[k])})
    /\ pc' = "img_clean"
    /\ UNCHANGED <<docVars, page_num, removed, calls, writes, rwVars, procVars>>

\* "if to_remove: self._clean_content_references(page, to_remove)"
ImgClean ==
    /\ pc = "img_clean"
    /\ to_remove # <<>>
    /\ pdf' = [pdf EXCEPT !.pages[page_num].contents = CleanContents(@, to_remove)]
    /\ calls' = Append(calls, [page |-> page_num, keys |-> to_remove,
                               table |-> DOMAIN pdf.pages[page_num].res.table])
    /\ pc' = "img_delete"
    /\ UNCHANGED <<orig, page_num, to_remove, removed, writes, rwVars, procVars>>

\* to_remove is empty: nothing is cleaned and nothing is deleted
ImgNoCandidates ==
    /\ pc = "img_clean"
    /\ to_remove = <<>>
    /\ page_num' = page_num + 1
    /\ pc' = "img_page"
    /\ UNCHANGED <<docVars, to_remove, removed, calls, writes, rwVars, procVars>>

\* one turn of "for key in to_remove: del xobjects[key]; removed += 1";
\* xobjects is the dictionary itself, not a copy: the key goes from the
\* table of every page whose /XObject is that dictionary
ImgDelete ==
    /\ pc = "img_delete"
    /\ to_remove # <<>>
    /\ LET key == Head(to_remove)
           holders == IF page_num \in pdf.shared THEN pdf.shared ELSE {page_num}
       IN  pdf' = [pdf EXCEPT !.pages =
                      [q \in 1..NumPages |->
                          IF q \in holders
                          THEN [@[q] EXCEPT !.res.table =
                                   [k \in (DOMAIN @) \ {key} |-> @[k]]]
                          ELSE @[q]]]
    /\ to_remove' = Tail(to_remove)
    /\ removed' = removed + 1
    /\ UNCHANGED <<pc, orig, page_num, calls, writes, rwVars, procVars>>

ImgNextPage ==
    /\ pc = "img_delete"
    /\ to_remove = <<>>
    /\ page_num' = page_num + 1
    /\ pc' = "img_page"
    /\ UNCHANGED <<docVars, to_remove, removed, calls, writes, rwVars, procVars>>

\* "return removed"
ImgReturn ==
    /\ pc = "img_page"
    /\ page_num > NumPages
    /\ pc' = "img_done"
    /\ UNCHANGED <<docVars, passVars, rwVars, procVars>>

NextImage ==
    \/ ImgSkipPage
    \/ ImgScan
    \/ ImgClean
    \/ ImgNoCandidates
    \/ ImgDelete
    \/ ImgNextPage
    \/ ImgReturn

(***************************************************************************)
(* remove_text_watermarks                                                  *)
(***************************************************************************)
\* position of the first "\n" of s at or after i, or 0
RECURSIVE NextNL(_, _)
NextNL(s, i) ==
    IF i > Len(s) THEN 0
    ELSE IF s[i] = "\n" THEN i ELSE NextNL(s, i + 1)

\* data.split('\n'), from position i on
RECURSIVE SplitFrom(_, _)
SplitFrom(s, i) ==
    LET n == NextNL(s, i)
    IN  IF n = 0 THEN <<SubSeq(s, i, Len(s))>>
        ELSE <<SubSeq(s, i, n - 1)>> \o SplitFrom(s, n + 1)

SplitLines(s) == SplitFrom(s, 1)

\* '\n'.join(lines)
RECURSIVE JoinLines(_)
JoinLines(lines) ==
    IF lines = <<>> THEN <<>>
    ELSE IF Len(lines) = 1 THEN lines[1]
    ELSE lines[1] \o <<"\n">> \o JoinLines(Tail(lines))

\* last position of s that holds no white space, or 0
RECURSIVE LastNonSpace(_, _)
LastNonSpace(s, i) ==
    IF i < 1 THEN 0
    ELSE IF IsSpace(s[i]) THEN LastNonSpace(s, i - 1) ELSE i

\* line.strip()
Strip(s) == SubSeq(s, SpaceEnd(s, 1), LastNonSpace(s, Len(s)))

\* the inner "while i < len(lines)": index of the line after the block that
\* starts at line b (the line after its ET, or after the last line)
RECURSIVE BlockEnd(_, _)
BlockEnd(lines, i) ==
    IF i > Len(lines) THEN i
    ELSE IF Strip(lines[i]) = <<"E", "T">> THEN i + 1 ELSE BlockEnd(lines, i + 1)

\* the outer "while i < len(lines)", from line i on, with the counter at
\* count: [cleaned, removed] when the loop ends
RECURSIVE ScanLines(_, _, _)
ScanLines(lines, i, count) ==
    IF i > Len(lines) THEN [cleaned |-> <<>>, removed |-> count]
    ELSE IF Strip(lines[i]) = <<"B", "T">>
         THEN LET e == BlockEnd(lines, i + 1)
                  block == SubSeq(lines, i, e - 1)
              IN  IF contains_watermark(JoinLines(block))
                  THEN ScanLines(lines, e, count + 1)
                  ELSE LET r == ScanLines(lines, e, count)
                       IN  [r EXCEPT !.cleaned = block \o @]
         ELSE LET r == ScanLines(lines, i + 1, count)
              IN  [r EXCEPT !.cleaned = <<lines[i]>> \o @]

\* the body of "for stream_ref in contents" on one entry, with the counter
\* at count: [stream, removed, written]; written tells whether
\* "if removed > 0: stream.write(...)" wrote the stream
TextCleanStream(st, count) ==
    IF ~st.readable THEN [stream |-> st, removed |-> count, written |-> FALSE]
    ELSE LET r == ScanLines(SplitLines(st.text), 1, count)
         IN  [stream |-> IF r.removed > 0
                         THEN [st EXCEPT !.text = JoinLines(r.cleaned)]
                         ELSE st,
              removed |-> r.removed,
              written |-> r.removed > 0]

\* "for stream_ref in contents", from entry n on: [streams, removed, written];
\* written lists the entries that were written
RECURSIVE TextCleanStreams(_, _, _)
TextCleanStreams(streams, n, count) ==
    IF n > Len(streams) THEN [streams |-> <<>>, removed |-> count, written |-> <<>>]
    ELSE LET one == TextCleanStream(streams[n], count)
             rest == TextCleanStreams(streams, n + 1, one.removed)
         IN  [streams |-> <<one.stream>> \o rest.streams,
              removed |-> rest.removed,
              written |-> (IF one.written THEN <<n>> ELSE <<>>) \o rest.written]

\* "if Name.Contents not in page: continue"
TextSkipPage ==
    /\ pc = "text_page"
    /\ page_num <= NumPages
    /\ pdf.pages[page_num].contents.kind = "absent"
    /\ page_num' = page_num + 1
    /\ UNCHANGED <<pc, docVars, to_remove, removed, calls, writes, rwVars, procVars>>

\* the loop over the content streams of one page
TextPage ==
    /\ pc = "text_page"
    /\ page_num <= NumPages
    /\ pdf.pages[page_num].contents.kind # "absent"
    /\ LET r == TextCleanStreams(pdf.pages[page_num].contents.streams, 1, removed)
       IN  /\ pdf' = [pdf EXCEPT !.pages[page_num].contents.streams = r.streams]
           /\ removed' = r.removed
           /\ writes' = writes \o [k \in 1..Len(r.written) |->
                                       [page |-> page_num, stream |-> r.written[k]]]
    /\ page_num' = page_num + 1
    /\ UNCHANGED <<pc, orig, to_remove, calls, rwVars, procVars>>

\* "return removed"
TextReturn ==
    /\ pc = "text_page"
    /\ page_num > NumPages
    /\ pc' = "text_done"
    /\ UNCHANGED <<docVars, passVars, rwVars, procVars>>

NextText ==
    \/ TextSkipPage
    \/ TextPage
    \/ TextReturn

(***************************************************************************)
(* clean_metadata                                                          *)
(*   pdf.info = [kind, fields]: the trailer's /Info absent, a dictionary   *)
(*   (fields maps the keys it holds to their text), a scalar that is false *)
(*   in Python ("falsy"), or another object that is neither a dictionary   *)
(*   nor an array ("malformed"), on which "key in info" raises             *)
(***************************************************************************)
MetadataKeys == <<"Title", "Subject", "Author", "Keywords", "Creator", "Producer">>

\* "for key in keys", from key n on: the fields left
RECURSIVE MetaFields(_, _)
MetaFields(fields, n) ==
    IF n > Len(MetadataKeys) THEN fields
    ELSE LET key == MetadataKeys[n]
         IN  IF key \in DOMAIN fields /\ contains_watermark(fields[key])
             THEN MetaFields([k \in (DOMAIN fields) \ {key} |-> fields[k]], n + 1)
             ELSE MetaFields(fields, n + 1)

\* "if not pdf.trailer.get(Name.Info): return 0": no /Info, an empty one, or
\* a scalar that is false in Python (the integer 0, the boolean false)
MetaNothing ==
    /\ pc = "meta"
    /\ \/ pdf.info.kind = "absent"
       \/ pdf.info.kind = "falsy"
       \/ pdf.info.kind = "dict" /\ DOMAIN pdf.info.fields = {}
    /\ removed' = 0
    /\ pc' = "meta_done"
    /\ UNCHANGED <<docVars, page_num, to_remove, calls, writes, rwVars, procVars>>

\* the loop over the six keys
MetaClean ==
    /\ pc = "meta"
    /\ pdf.info.kind = "dict"
    /\ DOMAIN pdf.info.fields # {}
    /\ LET after == MetaFields(pdf.info.fields, 1)
       IN  /\ pdf' = [pdf EXCEPT !.info.fields = after]
           /\ removed' = Cardinality(DOMAIN pdf.info.fields) - Cardinality(DOMAIN after)
    /\ pc' = "meta_done"
    /\ UNCHANGED <<orig, page_num, to_remove, calls, writes, rwVars, procVars>>

\* "if key in info" raises on an /Info that is no dictionary and is true in
\* Python (an integer other than 0, true, a string); nothing in
\* clean_metadata or in process catches it
MetaRaise ==
    /\ pc = "meta"
    /\ pdf.info.kind = "malformed"
    /\ pc' = "raised"
    /\ UNCHANGED <<docVars, passVars, rwVars, procVars>>

NextMeta ==
    \/ MetaNothing
    \/ MetaClean
    \/ MetaRaise

(***************************************************************************)
(* process: loading, the four passes in their order, and the export.       *)
(*   temp      the file at temp_pdf: "absent", "written" (saved whole) or  *)
(*             "partial" (what a save that raised left behind)             *)
(*   events    what the collaborators were asked and answered, in order:   *)
(*             [kind, page, ok]                                            *)
(*   acc       files (PNG) or images (TIFF): the pages accumulated         *)
(*   output    the pages the output PDF, the PNG files or the TIFF hold     *)
(*   result    "pending", "False", "files" (a non-empty list of paths), or *)
(*             "None" (no branch of the export was taken)                   *)
(***************************************************************************)
Event(kind, page, ok) == [kind |-> kind, page |-> page, ok |-> ok]

EnterPass(next) ==
    /\ pc' = next
    /\ page_num' = 1
    /\ to_remove' = <<>>
    /\ removed' = 0

\* "if not os.path.exists(input_path): return False"
ProcNotFound ==
    /\ pc = "start"
    /\ ~input_exists
    /\ result' = "False"
    /\ pc' = "returned"
    /\ UNCHANGED <<docVars, passVars, rwVars, fmt, input_exists, stats, temp,
                   pdf_open, doc_open, exp_i, acc, events, output, export_ok>>

\* Pdf.open raises: "return False"
ProcOpenFail ==
    /\ pc = "start"
    /\ input_exists
    /\ result' = "False"
    /\ pc' = "returned"
    /\ UNCHANGED <<docVars, passVars, rwVars, fmt, input_exists, stats, temp,
                   pdf_open, doc_open, exp_i, acc, events, output, export_ok>>

\* Pdf.open succeeds; stats['pages']; remove_annotations is entered
ProcOpen ==
    /\ pc = "start"
    /\ input_exists
    /\ pdf_open' = TRUE
    /\ stats' = [stats EXCEPT !.pages = NumPages]
    /\ EnterPass("annot_page")
    /\ UNCHANGED <<docVars, calls, writes, rwVars, fmt, input_exists, temp,
                   doc_open, exp_i, acc, events, output, export_ok, result>>

\* stats['annotations'] = ...; remove_watermark_images is entered
ProcAfterAnnots ==
    /\ pc = "annot_done"
    /\ stats' = [stats EXCEPT !.annotations = removed]
    /\ EnterPass("img_page")
    /\ UNCHANGED <<docVars, calls, writes, rwVars, fmt, input_exists, temp, pdf_open,
                   doc_open, exp_i, acc, events, output, export_ok, result>>

\* "Name.XObject not in resources" raises on a /Resources that is no
\* dictionary; nothing in remove_watermark_images or in process catches it
ImgRaise ==
    /\ pc = "img_page"
    /\ page_num <= NumPages
    /\ pdf.pages[page_num].res.kind = "malformed"
    /\ pc' = "raised"
    /\ UNCHANGED <<docVars, passVars, rwVars, procVars>>

\* stats['images'] = ...; remove_text_watermarks is entered
ProcAfterImages ==
    /\ pc = "img_done"
    /\ stats' = [stats EXCEPT !.images = removed]
    /\ EnterPass("text_page")
    /\ UNCHANGED <<docVars, calls, writes, rwVars, fmt, input_exists, temp, pdf_open,
                   doc_open, exp_i, acc, events, output, export_ok, result>>

\* stats['text_blocks'] = ...; clean_metadata is entered
ProcAfterText ==
    /\ pc = "text_done"
    /\ stats' = [stats EXCEPT !.text_blocks = removed]
    /\ EnterPass("meta")
    /\ UNCHANGED <<docVars, calls, writes, rwVars, fmt, input_exists, temp, pdf_open,
                   doc_open, exp_i, acc, events, output, export_ok, result>>

\* stats['metadata'] = ...; phase 3 begins
ProcAfterMeta ==
    /\ pc = "meta_done"
    /\ stats' = [stats EXCEPT !.metadata = removed]
    /\ pc' = "save_temp"
    /\ UNCHANGED <<docVars, passVars, rwVars, fmt, input_exists, temp, pdf_open,
                   doc_open, exp_i, acc, events, output, export_ok, result>>

\* pdf.save(temp_pdf, linearize=True); pdf.close(); then the branch of
\* "if ... == 'pdf' / elif ... == 'png' / elif ... == 'tif'", which has no
\* else: with any other format the summary comes next
SaveTempOk ==
    /\ pc = "save_temp"
    /\ temp' = "written"
    /\ pdf_open' = FALSE
    /\ events' = Append(events, Event("save", 0, TRUE))
    /\ pc' = CASE fmt = "pdf" -> "replace"
                [] fmt \in {"png", "tif"} -> "fitz_open"
                [] OTHER -> "summary"
    /\ UNCHANGED <<docVars, passVars, rwVars, fmt, input_exists, stats,
                   doc_open, exp_i, acc, output, export_ok, result>>

\* pdf.save raises: the file may be there in part, or not at all
SaveTempFail ==
    /\ pc = "save_temp"
    /\ temp' \in {"absent", "partial"}
    /\ events' = Append(events, Event("save", 0, FALSE))
    /\ pc' = "export_failed"
    /\ UNCHANGED <<docVars, passVars, rwVars, fmt, input_exists, stats, pdf_open,
                   doc_open, exp_i, acc, output, export_ok, result>>

\* PDF: os.replace(temp_pdf, output_path)
ReplaceOk ==
    /\ pc = "replace"
    /\ temp' = "absent"
    /\ output' = [n \in 1..NumPages |-> n]
    /\ export_ok' = TRUE
    /\ pc' = "summary"
    /\ UNCHANGED <<docVars, passVars, rwVars, fmt, input_exists, stats, pdf_open,
                   doc_open, exp_i, acc, events, result>>

\* os.replace raises: "except: shutil.copy2(...); os.remove(temp_pdf)"
ReplaceFail ==
    /\ pc = "replace"
    /\ events' = Append(events, Event("replace", 0, FALSE))
    /\ pc' = "copy"
    /\ UNCHANGED <<docVars, passVars, rwVars, fmt, input_exists, stats, temp,
                   pdf_open, doc_open, exp_i, acc, output, export_ok, result>>

CopyOk ==
    /\ pc = "copy"
    /\ output' = [n \in 1..NumPages |-> n]
    /\ pc' = "remove_copied"
    /\ UNCHANGED <<docVars, passVars, rwVars, fmt, input_exists, stats, temp,
                   pdf_open, doc_open, exp_i, acc, events, export_ok, result>>

\* shutil.copy2 raises, into the outer except
CopyFail ==
    /\ pc = "copy"
    /\ events' = Append(events, Event("copy", 0, FALSE))
    /\ pc' = "export_failed"
    /\ UNCHANGED <<docVars, passVars, rwVars, fmt, input_exists, stats, temp,
                   pdf_open, doc_open, exp_i, acc, output, export_ok, result>>

RemoveCopiedOk ==
    /\ pc = "remove_copied"
    /\ temp' = "absent"
    /\ export_ok' = TRUE
    /\ pc' = "summary"
    /\ UNCHANGED <<docVars, passVars, rwVars, fmt, input_exists, stats, pdf_open,
                   doc_open, exp_i, acc, events, output, result>>

\* this os.remove is not guarded: it raises into the outer except
RemoveCopiedFail ==
    /\ pc = "remove_copied"
    /\ events' = Append(events, Event("remove", 0, FALSE))
    /\ pc' = "export_failed"
    /\ UNCHANGED <<docVars, passVars, rwVars, fmt, input_exists, stats, temp,
                   pdf_open, doc_open, exp_i, acc, output, export_ok, result>>

(***************************************************************************)
(* export_to_png and export_to_tif: the same loop, the pages kept in files *)
(* (PNG, each written as it is rendered) or in images (TIFF).              *)
(***************************************************************************)
\* doc = fitz.open(pdf_path)
FitzOpenOk ==
    /\ pc = "fitz_open"
    /\ doc_open' = TRUE
    /\ exp_i' = 1
    /\ acc' = <<>>
    /\ events' = Append(events, Event("open", 0, TRUE))
    /\ pc' = "render"
    /\ UNCHANGED <<docVars, passVars, rwVars, fmt, input_exists, stats, temp,
                   pdf_open, output, export_ok, result>>

\* the failed open returning False at once, the temporary copy left behind
FitzOpenFailReturn ==
    /\ pc = "fitz_open"
    /\ events' = Append(events, Event("open", 0, FALSE))
    /\ export_ok' = FALSE
    /\ pc' = "decide"
    /\ UNCHANGED <<docVars, passVars, rwVars, fmt, input_exists, stats, temp,
                   pdf_open, doc_open, exp_i, acc, output, result>>

\* fitz.open raises: "return []" or "return None"
FitzOpenFail ==
    /\ pc = "fitz_open"
    /\ events' = Append(events, Event("open", 0, FALSE))
    /\ export_ok' = FALSE
    /\ pc' = "remove_temp"
    /\ UNCHANGED <<docVars, passVars, rwVars, fmt, input_exists, stats, temp,
                   pdf_open, doc_open, exp_i, acc, output, result>>

\* pix = page.get_pixmap(matrix=mat, alpha=False)
RenderPrimaryOk ==
    /\ pc = "render"
    /\ exp_i <= NumPages
    /\ events' = Append(events, Event("primary", exp_i, TRUE))
    /\ pc' = "store"
    /\ UNCHANGED <<docVars, passVars, rwVars, fmt, input_exists, stats, temp,
                   pdf_open, doc_open, exp_i, acc, output, export_ok, result>>

\* it raises: "Try again with default settings"
RenderPrimaryFail ==
    /\ pc = "render"
    /\ exp_i <= NumPages
    /\ events' = Append(events, Event("primary", exp_i, FALSE))
    /\ pc' = "retry"
    /\ UNCHANGED <<docVars, passVars, rwVars, fmt, input_exists, stats, temp,
                   pdf_open, doc_open, exp_i, acc, output, export_ok, result>>

\* pix = page.get_pixmap(alpha=False)
RetryOk ==
    /\ pc = "retry"
    /\ events' = Append(events, Event("retry", exp_i, TRUE))
    /\ pc' = "store"
    /\ UNCHANGED <<docVars, passVars, rwVars, fmt, input_exists, stats, temp,
                   pdf_open, doc_open, exp_i, acc, output, export_ok, result>>

\* the second failure ending the loop instead of going on to the next page
RetryFailBreak ==
    /\ pc = "retry"
    /\ events' = events \o <<Event("retry", exp_i, FALSE), Event("skip", exp_i, TRUE)>>
    /\ exp_i' = NumPages + 1
    /\ pc' = "render"
    /\ UNCHANGED <<docVars, passVars, rwVars, fmt, input_exists, stats, temp,
                   pdf_open, doc_open, acc, output, export_ok, result>>

\* it raises too: "Could not render page, skipping"; continue
RetryFail ==
    /\ pc = "retry"
    /\ events' = events \o <<Event("retry", exp_i, FALSE), Event("skip", exp_i, TRUE)>>
    /\ exp_i' = exp_i + 1
    /\ pc' = "render"
    /\ UNCHANGED <<docVars, passVars, rwVars, fmt, input_exists, stats, temp,
                   pdf_open, doc_open, acc, output, export_ok, result>>

\* the page put in front of those accumulated instead of behind them
StoreOkPrepend ==
    /\ pc = "store"
    /\ acc' = <<exp_i>> \o acc
    /\ output' = IF fmt = "png" THEN <<exp_i>> \o output
                                ELSE output
    /\ exp_i' = exp_i + 1
    /\ pc' = "render"
    /\ UNCHANGED <<docVars, passVars, rwVars, fmt, input_exists, stats, temp,
                   pdf_open, doc_open, events, export_ok, result>>

\* PNG: pix.save(out); files.append(out).
\* TIFF: pix.tobytes, Image.open; images.append(img).
StoreOk ==
    /\ pc = "store"
    /\ acc' = Append(acc, exp_i)
    /\ output' = IF fmt = "png" THEN Append(output, exp_i)
                                ELSE output
    /\ exp_i' = exp_i + 1
    /\ pc' = "render"
    /\ UNCHANGED <<docVars, passVars, rwVars, fmt, input_exists, stats, temp,
                   pdf_open, doc_open, events, export_ok, result>>

\* "page = doc[i]" raises: the handler of the page's try reports "Error on
\* page" (the event of kind "store" that failed) and the loop goes on; no
\* render is attempted for the page
LoadPageFail ==
    /\ pc = "render"
    /\ exp_i <= NumPages
    /\ events' = Append(events, Event("store", exp_i, FALSE))
    /\ exp_i' = exp_i + 1
    /\ UNCHANGED <<pc, docVars, passVars, rwVars, fmt, input_exists, stats, temp,
                   pdf_open, doc_open, acc, output, export_ok, result>>

\* one of them raises: "Error on page"; continue
StoreFail ==
    /\ pc = "store"
    /\ events' = Append(events, Event("store", exp_i, FALSE))
    /\ exp_i' = exp_i + 1
    /\ pc' = "render"
    /\ UNCHANGED <<docVars, passVars, rwVars, fmt, input_exists, stats, temp,
                   pdf_open, doc_open, acc, output, export_ok, result>>

\* the loop is over: doc.close(); PNG returns files
CloseDoc ==
    /\ pc = "render"
    /\ exp_i > NumPages
    /\ doc_open' = FALSE
    /\ events' = Append(events, Event("close", 0, TRUE))
    /\ export_ok' = IF fmt = "png" THEN acc # <<>> ELSE export_ok
    /\ pc' = IF fmt = "png" THEN "remove_temp" ELSE "tif_save"
    /\ UNCHANGED <<docVars, passVars, rwVars, fmt, input_exists, stats, temp,
                   pdf_open, exp_i, acc, output, result>>

\* TIFF: images[0].save(output, save_all=True, append_images=images[1:], ...)
TifSaveOk ==
    /\ pc = "tif_save"
    /\ acc # <<>>
    /\ output' = acc
    /\ export_ok' = TRUE
    /\ pc' = "remove_temp"
    /\ UNCHANGED <<docVars, passVars, rwVars, fmt, input_exists, stats, temp,
                   pdf_open, doc_open, exp_i, acc, events, result>>

\* it raises: "Failed to save TIF"; return None
TifSaveFail ==
    /\ pc = "tif_save"
    /\ acc # <<>>
    /\ events' = Append(events, Event("encode", 0, FALSE))
    /\ export_ok' = FALSE
    /\ pc' = "remove_temp"
    /\ UNCHANGED <<docVars, passVars, rwVars, fmt, input_exists, stats, temp,
                   pdf_open, doc_open, exp_i, acc, output, result>>

\* "No images to save"; return None
TifNoImages ==
    /\ pc = "tif_save"
    /\ acc = <<>>
    /\ export_ok' = FALSE
    /\ pc' = "remove_temp"
    /\ UNCHANGED <<docVars, passVars, rwVars, fmt, input_exists, stats, temp,
                   pdf_open, doc_open, exp_i, acc, events, output, result>>

\* PNG and TIFF: "try: os.remove(temp_pdf)"
RemoveTempOk ==
    /\ pc = "remove_temp"
    /\ temp' = "absent"
    /\ pc' = "decide"
    /\ UNCHANGED <<docVars, passVars, rwVars, fmt, input_exists, stats,
                   pdf_open, doc_open, exp_i, acc, events, output, export_ok, result>>

\* "except: pass"
RemoveTempFail ==
    /\ pc = "remove_temp"
    /\ events' = Append(events, Event("remove", 0, FALSE))
    /\ pc' = "decide"
    /\ UNCHANGED <<docVars, passVars, rwVars, fmt, input_exists, stats, temp,
                   pdf_open, doc_open, exp_i, acc, output, export_ok, result>>

\* "if not result: return False" (PNG), "if out: ... else: return False" (TIFF)
ReturnNoPages ==
    /\ pc = "decide"
    /\ ~export_ok
    /\ result' = "False"
    /\ pc' = "returned"
    /\ UNCHANGED <<docVars, passVars, rwVars, fmt, input_exists, stats, temp,
                   pdf_open, doc_open, exp_i, acc, events, output, export_ok>>

\* print_summary(); return result
ReturnResult ==
    /\ \/ pc = "summary" /\ fmt = "pdf"
       \/ pc = "decide" /\ export_ok
    /\ result' = "files"
    /\ pc' = "returned"
    /\ UNCHANGED <<docVars, passVars, rwVars, fmt, input_exists, stats, temp,
                   pdf_open, doc_open, exp_i, acc, events, output, export_ok>>

\* print_summary(); return result, with result still None: the format is
\* none of the three, no branch was taken and temp_pdf is left where it is
ReturnNone ==
    /\ pc = "summary"
    /\ fmt \notin {"pdf", "png", "tif"}
    /\ result' = "None"
    /\ pc' = "returned"
    /\ UNCHANGED <<docVars, passVars, rwVars, fmt, input_exists, stats, temp,
                   pdf_open, doc_open, exp_i, acc, events, output, export_ok>>

\* the outer except: "if os.path.exists(temp_pdf): os.remove(temp_pdf)";
\* return False
ExportFailedCleanup ==
    /\ pc = "export_failed"
    /\ temp # "absent"
    /\ temp' = "absent"
    /\ result' = "False"
    /\ pc' = "returned"
    /\ UNCHANGED <<docVars, passVars, rwVars, fmt, input_exists, stats,
                   pdf_open, doc_open, exp_i, acc, events, output, export_ok>>

\* that os.remove raises: "except: pass"
ExportFailedCleanupFail ==
    /\ pc = "export_failed"
    /\ temp # "absent"
    /\ events' = Append(events, Event("remove", 0, FALSE))
    /\ result' = "False"
    /\ pc' = "returned"
    /\ UNCHANGED <<docVars, passVars, rwVars, fmt, input_exists, stats, temp,
                   pdf_open, doc_open, exp_i, acc, output, export_ok>>

\* there is no file at temp_pdf
ExportFailedNoTemp ==
    /\ pc = "export_failed"
    /\ temp = "absent"
    /\ result' = "False"
    /\ pc' = "returned"
    /\ UNCHANGED <<docVars, passVars, rwVars, fmt, input_exists, stats, temp,
                   pdf_open, doc_open, exp_i, acc, events, output, export_ok>>

\* the steps of process in a run that main started: the format is pdf, png
\* or tif
NextProcessMain ==
    \/ ProcNotFound
    \/ ProcOpenFail
    \/ ProcOpen
    \/ ProcAfterAnnots
    \/ ImgRaise
    \/ ProcAfterImages
    \/ ProcAfterText
    \/ ProcAfterMeta
    \/ SaveTempOk
    \/ SaveTempFail
    \/ ReplaceOk
    \/ ReplaceFail
    \/ CopyOk
    \/ CopyFail
    \/ RemoveCopiedOk
    \/ RemoveCopiedFail
    \/ ReturnNoPages
    \/ ReturnResult
    \/ ExportFailedCleanup
    \/ ExportFailedCleanupFail
    \/ ExportFailedNoTemp

\* all steps of process, whatever format the XsukaxRemover was built with
NextProcess ==
    \/ NextProcessMain
    \/ ReturnNone

NextExport ==
    \/ FitzOpenOk
    \/ FitzOpenFail
    \/ RenderPrimaryOk
    \/ RenderPrimaryFail
    \/ RetryOk
    \/ RetryFail
    \/ StoreOk
    \/ StoreFail
    \/ LoadPageFail
    \/ CloseDoc
    \/ TifSaveOk
    \/ TifSaveFail
    \/ TifNoImages
    \/ RemoveTempOk
    \/ RemoveTempFail

(***************************************************************************)
(* Specification of remove_annotations alone: Init draws the annotation    *)
(* lists of a document.                                                    *)
(***************************************************************************)
MaxPages == 2

\* annotations of the whole document
MaxAnnots == 3

UriCamscanner ==
    <<"h", "t", "t", "p", ":", "/", "/", "w", "w", "w", ".", "c", "a", "m",
      "s", "c", "a", "n", "n", "e", "r", ".", "c", "o", "m", "/", "x">>

UriExample ==
    <<"h", "t", "t", "p", ":", "/", "/", "e", "x", "a", "m", "p", "l", "e",
      ".", "c", "o", "m">>

UriBrandOnly ==
    <<"h", "t", "t", "p", ":", "/", "/", "c", "a", "m", "s", "c", "a", "n",
      "n", "e", "r", ".", "o", "r", "g">>

TxtHello ==
    <<"h", "e", "l", "l", "o">>

TxtINTSIG ==
    <<"b", "y", " ", "I", "N", "T", "S", "I", "G">>

\* a link annotation: /A << /URI uri >>, and /Contents when given
LinkAnnot(uri, hasContents, contents) ==
    [isDict |-> TRUE, hasA |-> TRUE, aIsDict |-> TRUE, hasURI |-> TRUE,
     uri |-> uri, hasContents |-> hasContents, contents |-> contents]

\* an entry of /Annots that is no dictionary
NonDictAnnot ==
    [isDict |-> FALSE, hasA |-> FALSE, aIsDict |-> FALSE, hasURI |-> FALSE,
     uri |-> <<>>, hasContents |-> FALSE, contents |-> <<>>]

\* a text annotation: /Contents only
TextAnnot(contents) ==
    [isDict |-> TRUE, hasA |-> FALSE, aIsDict |-> FALSE, hasURI |-> FALSE,
     uri |-> <<>>, hasContents |-> TRUE, contents |-> contents]

AnnotKinds ==
    { LinkAnnot(UriCamscanner, FALSE, <<>>),
      LinkAnnot(UriExample, TRUE, TxtHello),
      LinkAnnot(UriExample, TRUE, TxtINTSIG),
      LinkAnnot(UriBrandOnly, FALSE, <<>>),
      TextAnnot(TxtHello),
      NonDictAnnot }

\* the sequences over S of length at most n
RECURSIVE SeqsUpTo(_, _)
SeqsUpTo(S, n) ==
    IF n <= 0 THEN {<<>>}
    ELSE LET shorter == SeqsUpTo(S, n - 1)
         IN  shorter \cup {<<x>> \o s : x \in S, s \in {t \in shorter : Len(t) = n - 1}}

\* what /Annots of the page under study can be
PageAnnotChoices(budget) ==
    {NoAnnots, [kind |-> "other", items |-> <<>>]}
    \cup {[kind |-> "array", items |-> l] : l \in SeqsUpTo(AnnotKinds, budget)}

\* the pages around it: without /Annots, or with one link to camscanner.com
AnnotFillerPages ==
    { EmptyPage,
      [EmptyPage EXCEPT !.annots =
          [kind |-> "array", items |-> <<LinkAnnot(UriCamscanner, FALSE, <<>>)>>]] }

\* the number of annotations of the pages ps
RECURSIVE CountAnnots(_)
CountAnnots(ps) ==
    IF ps = <<>> THEN 0
    ELSE Len(Head(ps).annots.items) + CountAnnots(Tail(ps))

\* the documents of n pages that hold at most budget annotations: one page
\* drawn from PageAnnotChoices, at any position, among filler pages
AnnotDocs(n, budget) ==
    IF n = 0 THEN {<<>>}
    ELSE { ps \in UNION { { pre \o <<[EmptyPage EXCEPT !.annots = a]>> \o post :
                               pre \in [1..(k - 1) -> AnnotFillerPages],
                               a \in PageAnnotChoices(budget),
                               post \in [1..(n - k) -> AnnotFillerPages] } :
                           k \in 1..n } :
             CountAnnots(ps) <= budget }

InitAnnot ==
    /\ pc = "annot_page"
    /\ \E n \in 0..MaxPages : \E ps \in AnnotDocs(n, MaxAnnots) :
          pdf = [EmptyPdf EXCEPT !.pages = ps]
    /\ orig = pdf
    /\ page_num = 1
    /\ to_remove = <<>>
    /\ removed = 0
    /\ calls = <<>>
    /\ writes = <<>>
    /\ data = <<>>
    /\ keys = <<>>
    /\ out = <<>>
    /\ out2 = <<>>
    /\ ProcessIdle

SpecAnnot == InitAnnot /\ [][NextAnnot]_vars

\* what the annotation pass is to remove: the Action URI matches the URL
\* rule, or the Contents text matches the text rule
AnnotMatchesRule(a) ==
    \/ a.hasURI /\ is_watermark_url(a.uri)
    \/ a.hasContents /\ contains_watermark(a.contents)

\* the annotations of items that match no rule, in their order
RECURSIVE KeptAnnots(_)
KeptAnnots(items) ==
    IF items = <<>> THEN <<>>
    ELSE (IF AnnotMatchesRule(Head(items)) THEN <<>> ELSE <<Head(items)>>)
         \o KeptAnnots(Tail(items))

RECURSIVE SumLens(_, _)
SumLens(d, p) ==
    IF p > Len(d.pages) THEN 0
    ELSE Len(d.pages[p].annots.items) + SumLens(d, p + 1)

\* C4: after the annotation pass every page's annotation list is the
\* original list without the annotations whose URI matches the URL rule or
\* whose Contents matches the text rule, the others kept in their order, and
\* the count returned is the number of annotations removed.
C4_AnnotationsFiltered ==
    pc = "annot_done" =>
        /\ Len(pdf.pages) = Len(orig.pages)
        /\ \A p \in 1..Len(pdf.pages) :
              /\ pdf.pages[p].annots.kind = orig.pages[p].annots.kind
              /\ pdf.pages[p].annots.items = KeptAnnots(orig.pages[p].annots.items)
        /\ removed = SumLens(orig, 1) - SumLens(pdf, 1)

\* a page lost two annotations that stood before one it kept
C4_Witness ==
    /\ pc = "annot_done"
    /\ \E p \in 1..Len(pdf.pages) :
          LET o == orig.pages[p].annots.items
          IN  /\ Len(o) = 3
              /\ AnnotMatchesRule(o[1])
              /\ AnnotMatchesRule(o[2])
              /\ pdf.pages[p].annots.items = <<o[3]>>

(***************************************************************************)
(* Specification of remove_watermark_images alone: Init draws the XObject  *)
(* tables and the content streams of a document.                           *)
(***************************************************************************)
\* XObjects of the whole document
MaxXObjects == 2

KeyIm1 ==
    <<"/", "I", "m", "1">>

KeyIm2 ==
    <<"/", "I", "m", "2">>

TxtPaintBoth ==
    <<"q", " ", "1", " ", "0", " ", "0", " ", "1", " ", "0", " ", "0", " ",
      "c", "m", " ", "/", "I", "m", "1", " ", "D", "o", " ", "Q", "\n",
      "/", "I", "m", "2", " ", "D", "o", "\n">>

TxtPaintTwice ==
    <<"/", "I", "m", "1", " ", "D", "o", "\n", "/", "/", "I", "m", "1",
      " ", "D", "o", "\n">>

TxtPaintOverlay ==
    <<"/", "I", "m", "2", " ", "D", "o", "\n">>

ImageXObj(w, h) == [subtype |-> "Image", hasDims |-> TRUE, width |-> w, height |-> h]

\* a form XObject: no /Width, no /Height
FormXObj == [subtype |-> "Form", hasDims |-> FALSE, width |-> 0, height |-> 0]

\* an image XObject without /Width
BrokenImageXObj == [subtype |-> "Image", hasDims |-> FALSE, width |-> 0, height |-> 50]

XObjKinds ==
    { ImageXObj(999, 2000), ImageXObj(2000, 999), ImageXObj(1000, 1000),
      FormXObj, BrokenImageXObj }

Tables(budget) ==
    UNION { [S -> XObjKinds] : S \in {T \in SUBSET {KeyIm1, KeyIm2} : Cardinality(T) <= budget} }

PageResChoices(budget) ==
    {NoResources, [kind |-> "dict", xkind |-> "absent", table |-> <<>>]}
    \cup {[kind |-> "dict", xkind |-> "dict", table |-> t] : t \in Tables(budget)}

PageContentChoices ==
    { NoContents,
      [kind |-> "stream", streams |-> <<[readable |-> TRUE, text |-> TxtPaintBoth]>>],
      [kind |-> "array", streams |-> <<[readable |-> FALSE, text |-> <<>>],
                                       [readable |-> TRUE, text |-> TxtPaintTwice]>>] }

\* the pages around the page under study: a bare page, or a page whose one
\* image, /Im2, is 999 by 2000 and is painted once
ImgFillerPages ==
    { EmptyPage,
      [EmptyPage EXCEPT
          !.res = [kind |-> "dict", xkind |-> "dict",
                   table |-> [k \in {KeyIm2} |-> ImageXObj(999, 2000)]],
          !.contents = [kind |-> "stream",
                        streams |-> <<[readable |-> TRUE, text |-> TxtPaintOverlay]>>]] }

\* the number of XObjects of the pages ps
RECURSIVE CountXObjects(_)
CountXObjects(ps) ==
    IF ps = <<>> THEN 0
    ELSE Cardinality(DOMAIN Head(ps).res.table) + CountXObjects(Tail(ps))

\* the documents of n pages that hold at most budget XObjects: one page
\* drawn from PageResChoices and PageContentChoices, at any position, among
\* filler pages
ImgDocs(n, budget) ==
    IF n = 0 THEN {<<>>}
    ELSE { ps \in UNION { { pre \o <<[EmptyPage EXCEPT !.res = r, !.contents = c]>> \o post :
                               pre \in [1..(k - 1) -> ImgFillerPages],
                               r \in PageResChoices(budget),
                               c \in PageContentChoices,
                               post \in [1..(n - k) -> ImgFillerPages] } :
                           k \in 1..n } :
             CountXObjects(ps) <= budget }

\* the pages either share no /XObject dictionary, or two or more of them
\* have one and the same object as their /Resources /XObject (the pages of
\* such a group show the same table)
InitImage ==
    /\ pc = "img_page"
    /\ \E n \in 0..MaxPages : \E ps \in ImgDocs(n, MaxXObjects) :
          \E sh \in {{}} \cup { S \in SUBSET (1..n) :
                                  /\ Cardinality(S) >= 2
                                  /\ \A p \in S : ps[p].res.xkind = "dict"
                                  /\ \A p, q \in S : ps[p].res.table = ps[q].res.table } :
             pdf = [EmptyPdf EXCEPT !.pages = ps, !.shared = sh]
    /\ orig = pdf
    /\ page_num = 1
    /\ to_remove = <<>>
    /\ removed = 0
    /\ calls = <<>>
    /\ writes = <<>>
    /\ data = <<>>
    /\ keys = <<>>
    /\ out = <<>>
    /\ out2 = <<>>
    /\ ProcessIdle

SpecImage == InitImage /\ [][NextImage]_vars

\* the keys the image pass has deleted from page p's table so far
DeletedKeys(p) == (DOMAIN orig.pages[p].res.table) \ (DOMAIN pdf.pages[p].res.table)

\* what the image pass is to remove: an image less than 1000 wide or less
\* than 1000 high
IsSmallImage(xobj) ==
    /\ xobj.subtype = "Image"
    /\ xobj.hasDims
    /\ (xobj.width < 1000 \/ xobj.height < 1000)

\* a character that ends a name in a content stream
EndsName(s, i) ==
    \/ i > Len(s)
    \/ IsSpace(s[i])
    \/ s[i] \in {"/", "(", ")", "<", ">", "[", "]", "{", "}", "%"}

\* the text holds the name token key (the key is the name with its "/"),
\* be it in "key Do" or alone
RefersTo(key, s) ==
    \E i \in 1..Len(s) : LitAt(key, s, i) /\ EndsName(s, i + Len(key))

\* C1: after the image pass no content stream of a page refers to an
\* identifier the pass deleted from that page's XObject table.
C1_NoDanglingReference ==
    pc = "img_done" =>
        \A p \in 1..NumPages : \A key \in DeletedKeys(p) :
            \A n \in 1..Len(pdf.pages[p].contents.streams) :
                LET st == pdf.pages[p].contents.streams[n]
                IN  st.readable => ~RefersTo(key, st.text)

\* the calls of the rewriter made for page p
CallsFor(p) == SelectSeq(calls, LAMBDA c : c.page = p)

\* page p's scan and clean steps are over
PageCleaned(p) ==
    \/ p < page_num
    \/ p = page_num /\ pc = "img_delete"
    \/ pc = "img_done"

\* C2: for each page the rewriter is called exactly once, with all removal
\* candidates of the page, and the call is over before any entry of the
\* page's table is deleted: in no state is a candidate gone from the table
\* of a page for which the rewriter has not run.
C2_CleanBeforeDelete ==
    \A p \in 1..NumPages :
        LET cs == CallsFor(p)
            candidates == {k \in DOMAIN orig.pages[p].res.table :
                              IsSmallImage(orig.pages[p].res.table[k])}
        IN  /\ Len(cs) <= 1
            /\ PageCleaned(p) => Len(cs) = 1
            /\ DeletedKeys(p) \cap candidates # {} => Len(cs) = 1
            /\ \A n \in 1..Len(cs) :
                  /\ Range(cs[n].keys) = candidates
                  /\ Len(cs[n].keys) = Cardinality(candidates)
                  /\ cs[n].table = DOMAIN orig.pages[p].res.table

\* the entries deleted from the dictionaries of the pages p .. NumPages, a
\* dictionary that pages share counted once, at its first page
RECURSIVE CountDeleted(_)
CountDeleted(p) ==
    IF p > NumPages THEN 0
    ELSE (IF p \in pdf.shared /\ \E q \in pdf.shared : q < p
          THEN 0
          ELSE Cardinality(DeletedKeys(p)))
         + CountDeleted(p + 1)

\* C3: the image pass removes an XObject exactly when it is an image less
\* than 1000 wide or less than 1000 high; an image of at least 1000 by 1000
\* and every XObject that is no image stay, as they were; the count returned
\* is the number of entries removed.
C3_RemovedIffSmallImage ==
    pc = "img_done" =>
        /\ \A p \in 1..NumPages :
              LET before == orig.pages[p].res.table
                  after == pdf.pages[p].res.table
              IN  /\ pdf.pages[p].res.kind = orig.pages[p].res.kind
                  /\ pdf.pages[p].res.xkind = orig.pages[p].res.xkind
                  /\ DOMAIN after \subseteq DOMAIN before
                  /\ \A k \in DOMAIN before :
                        /\ k \notin DOMAIN after <=> IsSmallImage(before[k])
                        /\ k \in DOMAIN after => after[k] = before[k]
        /\ removed = CountDeleted(1)

\* a page held a 999 x 2000 image and a 1000 x 1000 image: one went, one stayed
C3_Witness ==
    /\ pc = "img_done"
    /\ removed >= 1
    /\ \E p \in 1..NumPages :
          LET before == orig.pages[p].res.table
          IN  \E k1, k2 \in DOMAIN before :
                /\ before[k1] = ImageXObj(999, 2000)
                /\ before[k2] = ImageXObj(1000, 1000)
                /\ DOMAIN pdf.pages[p].res.table = {k2}

(***************************************************************************)
(* Specification of process: Init draws the document, the format and       *)
(* whether the input file exists; every collaborator call that can raise   *)
(* either succeeds or raises.                                              *)
(***************************************************************************)
TxtWatermarkBlock ==
    <<"B", "T", "\n", "(", "C", "a", "m", "S", "c", "a", "n", "n", "e",
      "r", ")", " ", "T", "j", "\n", "E", "T", "\n">>

TxtHelloBlock ==
    <<"B", "T", "\n", "(", "h", "e", "l", "l", "o", ")", " ", "T", "j",
      "\n", "E", "T", "\n">>

\* a scanned page: a link to camscanner.com and another link, the scan and
\* a small overlay image, a text block with the signature
SamplePageScan ==
    [annots |-> [kind |-> "array",
                 items |-> <<LinkAnnot(UriCamscanner, FALSE, <<>>),
                             LinkAnnot(UriExample, TRUE, TxtHello)>>],
     res |-> [kind |-> "dict", xkind |-> "dict",
              table |-> [k \in {KeyIm1, KeyIm2} |-> IF k = KeyIm1 THEN ImageXObj(2000, 3000)
                                                         ELSE ImageXObj(50, 50)]],
     contents |-> [kind |-> "stream",
                   streams |-> <<[readable |-> TRUE,
                                  text |-> TxtPaintOverlay \o TxtWatermarkBlock]>>]]

\* a page without annotations whose one image is the scan; two entries in
\* /Contents, the first one unreadable
SamplePagePlain ==
    [annots |-> NoAnnots,
     res |-> [kind |-> "dict", xkind |-> "dict",
              table |-> [k \in {KeyIm1} |-> ImageXObj(1000, 1000)]],
     contents |-> [kind |-> "array",
                   streams |-> <<[readable |-> FALSE, text |-> <<>>],
                                 [readable |-> TRUE, text |-> TxtHelloBlock]>>]]

\* a page whose /Resources is no dictionary
SamplePageBadResources ==
    [EmptyPage EXCEPT !.res = [kind |-> "malformed", xkind |-> "absent", table |-> <<>>]]

SamplePages == {SamplePageScan, SamplePagePlain, EmptyPage, SamplePageBadResources}

\* /Producer (CamScanner 5.0) and /Author (Jane Doe)
SampleInfo ==
    [kind |-> "dict",
     fields |-> [k \in {"Producer", "Author"} |->
                    IF k = "Producer"
                    THEN <<"C", "a", "m", "S", "c", "a", "n", "n", "e", "r", " ",
                           "5", ".", "0">>
                    ELSE <<"J", "a", "n", "e", " ", "D", "o", "e">>]]

\* an /Info that is neither a dictionary nor an array, and is true in Python
MalformedInfo == [kind |-> "malformed", fields |-> <<>>]

SampleDocs ==
    {[pages |-> ps, info |-> SampleInfo, shared |-> {}] : ps \in SeqsUpTo(SamplePages, MaxPages)}
    \cup {[pages |-> <<SamplePageScan>>, info |-> nf, shared |-> {}] : nf \in {NoInfo, MalformedInfo, [kind |-> "falsy", fields |-> <<>>]}}

\* the state in which main calls process: main builds the XsukaxRemover
\* from what parse_args returns, and parse_args ends the program on any
\* format but pdf, png, tif and tiff (tiff is turned into tif)
Init ==
    /\ pc = "start"
    /\ pdf \in SampleDocs
    /\ orig = pdf
    /\ page_num = 1
    /\ to_remove = <<>>
    /\ removed = 0
    /\ calls = <<>>
    /\ writes = <<>>
    /\ data = <<>>
    /\ keys = <<>>
    /\ out = <<>>
    /\ out2 = <<>>
    /\ fmt \in {"pdf", "png", "tif"}
    /\ input_exists \in BOOLEAN
    /\ stats = [pages |-> 0, annotations |-> 0, images |-> 0, text_blocks |-> 0,
                metadata |-> 0]
    /\ temp = "absent"
    /\ pdf_open = FALSE
    /\ doc_open = FALSE
    /\ exp_i = 1
    /\ acc = <<>>
    /\ events = <<>>
    /\ output = <<>>
    /\ export_ok = FALSE
    /\ result = "pending"

\* the steps of the run that main starts: remover = XsukaxRemover(...,
\* export_format=args['format'], ...); remover.process(...)
Next ==
    \/ NextProcessMain
    \/ NextAnnot
    \/ NextImage
    \/ NextText
    \/ NextMeta
    \/ NextExport

Spec == Init /\ [][Next]_vars

\* the export is straight-line code around a "for" loop: a step of it that
\* can be taken is taken
FairSpec == Spec /\ WF_vars(NextExport)

\* process of an XsukaxRemover that was built directly, not by main, with a
\* format string the command line does not accept: the constructor keeps
\* the string as it is, and no branch of the export tests for it
InitUnknownFormat ==
    /\ pc = "start"
    /\ pdf \in SampleDocs
    /\ orig = pdf
    /\ page_num = 1
    /\ to_remove = <<>>
    /\ removed = 0
    /\ calls = <<>>
    /\ writes = <<>>
    /\ data = <<>>
    /\ keys = <<>>
    /\ out = <<>>
    /\ out2 = <<>>
    /\ fmt = "jpg"
    /\ input_exists \in BOOLEAN
    /\ stats = [pages |-> 0, annotations |-> 0, images |-> 0, text_blocks |-> 0,
                metadata |-> 0]
    /\ temp = "absent"
    /\ pdf_open = FALSE
    /\ doc_open = FALSE
    /\ exp_i = 1
    /\ acc = <<>>
    /\ events = <<>>
    /\ output = <<>>
    /\ export_ok = FALSE
    /\ result = "pending"

SpecUnknownFormat == InitUnknownFormat /\ [][Next \/ NextProcess]_vars

(***************************************************************************)
(* export_to_pdf, a public method that process does not call: the open     *)
(* document is saved straight to the output, with no temporary copy; the   *)
(* document stays open and an error of the save goes to the caller.        *)
(***************************************************************************)
\* pdf.save(output)
ExportToPdfOk ==
    /\ pc = "export_to_pdf"
    /\ output' = [n \in 1..NumPages |-> n]
    /\ events' = Append(events, Event("save", 0, TRUE))
    /\ pc' = "returned"
    /\ UNCHANGED <<docVars, passVars, rwVars, fmt, input_exists, stats, temp,
                   pdf_open, doc_open, exp_i, acc, export_ok, result>>

\* pdf.save raises; nothing in export_to_pdf catches it
ExportToPdfRaise ==
    /\ pc = "export_to_pdf"
    /\ events' = Append(events, Event("save", 0, FALSE))
    /\ pc' = "raised"
    /\ UNCHANGED <<docVars, passVars, rwVars, fmt, input_exists, stats, temp,
                   pdf_open, doc_open, exp_i, acc, output, export_ok, result>>

InitExportToPdf ==
    /\ pc = "export_to_pdf"
    /\ pdf \in SampleDocs
    /\ orig = pdf
    /\ page_num = 1
    /\ to_remove = <<>>
    /\ removed = 0
    /\ calls = <<>>
    /\ writes = <<>>
    /\ data = <<>>
    /\ keys = <<>>
    /\ out = <<>>
    /\ out2 = <<>>
    /\ ProcessIdle

SpecExportToPdf == InitExportToPdf /\ [][ExportToPdfOk \/ ExportToPdfRaise]_vars

(***************************************************************************)
(* Properties of the export loop and of process.                           *)
(***************************************************************************)
\* the events of one kind, in their order
EventsOf(kind) == SelectSeq(events, LAMBDA e : e.kind = kind)

\* the events of one kind about page p
EventsAbout(kind, p) == SelectSeq(events, LAMBDA e : e.kind = kind /\ e.page = p)

\* a collaborator call of this kind has failed
HasFailure(kind) == \E n \in 1..Len(events) : events[n].kind = kind /\ ~events[n].ok

\* the loop has left page p behind
PageDone(p) == p < exp_i

\* the pages in the order their render succeeded, at the first or the
\* second attempt
RenderedPages ==
    LET oks == SelectSeq(events, LAMBDA e : e.kind \in {"primary", "retry"} /\ e.ok)
    IN  [n \in 1..Len(oks) |-> oks[n].page]

\* the export loop, as far as it has come: the n-th primary render is that
\* of page n; a page has at most one retry, and has one exactly when its
\* primary render failed; it is skipped exactly when both failed; when the
\* document is closed every page has had its primary render
LoopShape ==
    LET primary == EventsOf("primary")
    IN  /\ \A n \in 1..Len(primary) : primary[n].page = n
        /\ Len(primary) <= NumPages
        /\ \A p \in 1..NumPages :
              /\ Len(EventsAbout("retry", p)) <= 1
              /\ Len(EventsAbout("skip", p)) <= 1
              /\ EventsAbout("retry", p) # <<>>
                    => p <= Len(primary) /\ ~primary[p].ok
              /\ EventsAbout("skip", p) # <<>>
                    => EventsAbout("retry", p) # <<>> /\ ~EventsAbout("retry", p)[1].ok
              /\ PageDone(p) /\ p <= Len(primary) =>
                    /\ ~primary[p].ok => EventsAbout("retry", p) # <<>>
                    /\ (/\ ~primary[p].ok
                        /\ EventsAbout("retry", p) # <<>>
                        /\ ~EventsAbout("retry", p)[1].ok)
                          => EventsAbout("skip", p) # <<>>
        /\ EventsOf("close") # <<>> => Len(primary) = NumPages

\* C7 as stated: in the PNG and TIFF export every page is visited once, in
\* ascending order; for each page the primary render is tried once, the
\* retry exactly when the primary render failed, the page is skipped exactly
\* when both failed, and the loop goes on to the next page: once the
\* document is open the loop comes to its end and closes it, every page
\* having had its primary render.
C7_RenderLoopCompletes == [](LoopShape) /\ (doc_open ~> ~doc_open)

\* page p could not be loaded: "Error on page" was reported for it and no
\* render was attempted
LoadFailed(p) == EventsAbout("store", p) # <<>> /\ EventsAbout("primary", p) = <<>>

\* the export loop, as far as it has come: the events about pages come in
\* ascending page order and only about pages the loop has reached; a page
\* left behind was either loaded and had its primary render once, or could
\* not be loaded and had no render at all; a retry exists exactly for a
\* failed primary render, a skip exactly for two failures; when the
\* document is closed every page has been left behind
LoopShapeLoaded ==
    /\ \A m, n \in 1..Len(events) :
          (m < n /\ events[m].page > 0 /\ events[n].page > 0)
              => events[m].page <= events[n].page
    /\ \A p \in 1..NumPages :
          /\ Len(EventsAbout("primary", p)) <= 1
          /\ Len(EventsAbout("retry", p)) <= 1
          /\ Len(EventsAbout("skip", p)) <= 1
          /\ Len(EventsAbout("store", p)) <= 1
          /\ (doc_open /\ p > exp_i) =>
                \A n \in 1..Len(events) : events[n].page # p
          /\ EventsAbout("retry", p) # <<>>
                <=> (EventsAbout("primary", p) # <<>>
                        /\ ~EventsAbout("primary", p)[1].ok
                        /\ (PageDone(p) \/ pc = "store"))
          /\ EventsAbout("skip", p) # <<>>
                <=> (EventsAbout("retry", p) # <<>> /\ ~EventsAbout("retry", p)[1].ok)
          /\ PageDone(p) => (EventsAbout("primary", p) # <<>> \/ LoadFailed(p))
    /\ EventsOf("close") # <<>> => exp_i > NumPages

\* C7, amended: in the PNG and TIFF export every page is visited once, in
\* ascending order; for each page that could be loaded the primary render
\* is tried once, the retry exactly when the primary render failed, and the
\* page is skipped exactly when both failed; a page that could not be
\* loaded is reported and gets no render; in every case the loop goes on to
\* the next page: once the document is open the loop comes to its end and
\* closes it, every page having been visited.
C7_RenderLoopCompletesLoaded == [](LoopShapeLoaded) /\ (doc_open ~> ~doc_open)

\* a two-page run is over in which page 1 could not be loaded and page 2
\* was rendered at the retry
C7_Witness ==
    /\ pc = "returned"
    /\ NumPages = 2
    /\ LoadFailed(1)
    /\ EventsAbout("retry", 2) # <<>>
    /\ EventsAbout("retry", 2)[1].ok
    /\ EventsOf("close") # <<>>

\* the encoder has failed: pix.save, pix.tobytes or Image.open on a rendered
\* page, or the saving of the TIFF
EncoderFailed ==
    \/ HasFailure("encode")
    \/ \E n \in 1..Len(events) :
          /\ events[n].kind = "store"
          /\ ~events[n].ok
          /\ ~LoadFailed(events[n].page)

\* C8: in PNG and TIFF mode, when the temporary document opens and the
\* encoder does not fail, the run fails exactly when no page was rendered;
\* otherwise it succeeds and the output holds the rendered pages, in
\* ascending order.
C8_FailsIffNoPageRendered ==
    (/\ pc = "returned"
     /\ fmt \in {"png", "tif"}
     /\ EventsOf("open") # <<>>
     /\ ~HasFailure("open")
     /\ ~EncoderFailed)
    => /\ result = "False" <=> RenderedPages = <<>>
       /\ result \in {"False", "files"}
       /\ result = "files" =>
             /\ output = RenderedPages
             /\ \A n \in 1..(Len(output) - 1) : output[n] < output[n + 1]

\* a TIFF run of two pages succeeded with page 2 alone, page 1 skipped
C8_Witness ==
    /\ pc = "returned"
    /\ fmt = "tif"
    /\ NumPages = 2
    /\ ~EncoderFailed
    /\ result = "files"
    /\ output = <<2>>

\* C9: the temporary copy is written whole and the document closed before
\* the renderer opens the copy; when process returns, on any path, and no
\* removal has failed, there is no file at the temporary path.
C9_TempWrittenThenRemoved ==
    /\ (pc \in {"fitz_open", "render", "retry", "store"} \/ doc_open)
          => temp = "written" /\ ~pdf_open
    /\ EventsOf("open") # <<>>
          => /\ events[1] = Event("save", 0, TRUE)
             /\ ~pdf_open
    /\ (pc = "returned" /\ ~HasFailure("remove")) => temp = "absent"

\* a run that rendered from the temporary copy has returned, the copy gone
C9_Witness ==
    /\ pc = "returned"
    /\ EventsOf("open") # <<>>
    /\ EventsOf("primary") # <<>>
    /\ ~HasFailure("remove")
    /\ temp = "absent"

\* C10: process lets no error escape: whatever fails while loading, in one
\* of the four passes or in the export, process returns.
C10_NoErrorEscapes == pc # "raised"

(***************************************************************************)
(* Specification of the rewriter as a function: Init draws a stream and a  *)
(* key list, the actions apply the rewriter once and once more.            *)
(***************************************************************************)
MaxFrags == 3

\* lists of key strings: "A", "B" and "/A"
KeyLists ==
    { << <<"A">> >>,
      << <<"B">> >>,
      << <<"A">>, <<"B">> >>,
      << <<"B">>, <<"A">> >>,
      << <<"/", "A">> >> }

\* pieces of content streams
Fragments ==
    { <<"q", "\n">>,
      <<"Q", "\n">>,
      <<"q", " ", "/", "A", " ", "D", "o", " ", "Q", "\n">>,
      <<"q", " ", "1", " ", "0", " ", "0", " ", "1", " ", "0", " ", "0", " ",
        "c", "m", " ", "/", "A", " ", "D", "o", " ", "Q", "\n">>,
      <<"/", "A", " ", "D", "o", "\n">>,
      <<"/", "B", " ", "D", "o", "\n">>,
      <<"/", "A", " ", "g", "s", "\n">>,
      <<"0", " ", "0", " ", "m", "\n">>,
      <<"\n">> }

RECURSIVE Streams(_)
Streams(n) ==
    IF n = 0 THEN {<<>>}
    ELSE LET shorter == Streams(n - 1)
         IN  shorter \cup {s \o f : s \in shorter, f \in Fragments}

InitRewriter ==
    /\ pc = "rw_start"
    /\ data \in Streams(MaxFrags)
    /\ keys \in KeyLists
    /\ out = <<>>
    /\ out2 = <<>>
    /\ ProcessIdle
    /\ pdf = EmptyPdf
    /\ orig = EmptyPdf
    /\ page_num = 1
    /\ to_remove = <<>>
    /\ removed = 0
    /\ calls = <<>>
    /\ writes = <<>>

RewriterApply ==
    /\ pc = "rw_start"
    /\ out' = StripReferences(keys, data)
    /\ pc' = "rw_once"
    /\ UNCHANGED <<data, keys, out2, docVars, passVars, procVars>>

RewriterApplyAgain ==
    /\ pc = "rw_once"
    /\ out2' = StripReferences(keys, out)
    /\ pc' = "rw_twice"
    /\ UNCHANGED <<data, keys, out, docVars, passVars, procVars>>

NextRewriter == RewriterApply \/ RewriterApplyAgain

SpecRewriter == InitRewriter /\ [][NextRewriter]_vars

\* /k\s+Do occurs somewhere in s
HasInvocation(k, s) == \E i \in 1..Len(s) : KeyDoAt(k, s, i) > 0

\* one of the five patterns made for key k matches somewhere in s
KeyPatternMatches(k, s) ==
    \E i \in 1..Len(s) :
        \/ Pat1(k, s, i) > 0
        \/ Pat2(k, s, i) > 0
        \/ Pat3(k, s, i) > 0
        \/ Pat4(k, s, i) > 0
        \/ Pat5(k, s, i) > 0

\* C5: the rewriter is idempotent: applied to its own output with the same
\* keys it returns that output unchanged, and its output holds no "/k Do"
\* for any key k.
C5_RewriterIdempotent ==
    pc = "rw_twice" =>
        /\ out2 = out
        /\ \A n \in 1..Len(keys) : ~HasInvocation(keys[n], out)

\* C6: when none of the patterns made for the keys matches in the stream,
\* the rewriter returns the text it was given and does not write the stream.
C6_NoMatchNoChange ==
    pc = "rw_once" /\ (\A n \in 1..Len(keys) : ~KeyPatternMatches(keys[n], data))
        => /\ out = data
           /\ ~StreamWritten(keys, data)

\* the position of the "q" operator that opens the graphics-state bracket
\* around position j: the nearest "q" before j, standing alone between
\* white space, with no "Q" between it and j; 0 if there is none
RECURSIVE BracketOpen(_, _)
BracketOpen(s, j) ==
    IF j < 1 \/ s[j] = "Q" THEN 0
    ELSE IF /\ s[j] = "q"
            /\ j + 1 <= Len(s) /\ IsSpace(s[j + 1])
            /\ (j = 1 \/ IsSpace(s[j - 1]))
         THEN j
         ELSE BracketOpen(s, j - 1)

\* the position of the "Q" operator that closes the bracket around position
\* j: the nearest "Q" from j on with no "q" operator before it; 0 if there
\* is none
RECURSIVE BracketClose(_, _)
BracketClose(s, j) ==
    IF j > Len(s) THEN 0
    ELSE IF s[j] = "Q" THEN j
    ELSE IF /\ s[j] = "q"
            /\ (j = Len(s) \/ IsSpace(s[j + 1]))
            /\ (j = 1 \/ IsSpace(s[j - 1]))
         THEN 0
         ELSE BracketClose(s, j + 1)

\* the positions of the brackets "q ... /k Do ... Q" of s: from the "q" that
\* opens the bracket around an invocation of k to the "Q" that closes it
BracketPositions(k, s) ==
    UNION { IF BracketOpen(s, j - 1) > 0 /\ BracketClose(s, KeyDoAt(k, s, j)) > 0
            THEN BracketOpen(s, j - 1)..BracketClose(s, KeyDoAt(k, s, j))
            ELSE {} :
            j \in { x \in 1..Len(s) : KeyDoAt(k, s, x) > 0 } }

\* first position of the run of digits, ".", "-" and white space that ends
\* just before position j
RECURSIVE NumRunStart(_, _)
NumRunStart(s, j) ==
    IF j - 1 >= 1 /\ IsNumClass(s[j - 1]) THEN NumRunStart(s, j - 1) ELSE j

\* the positions in a..(b - 1) where a number starts
NumberStarts(s, a, b) ==
    { x \in a..(b - 1) : ~IsSpace(s[x]) /\ (x = a \/ IsSpace(s[x - 1])) }

\* the positions of the operators "n n n n n n cm" of s that stand
\* immediately before an invocation of k: the six numbers and "cm"
MatrixPositions(k, s) ==
    UNION { LET c == CHOOSE x \in 1..j : LitAt(<<"c", "m">>, s, x) /\ SpaceEnd(s, x + 2) = j
                nums == NumberStarts(s, NumRunStart(s, c), c)
            IN  IF Cardinality(nums) >= 6
                THEN (CHOOSE t \in nums : Cardinality({ u \in nums : u >= t }) = 6)..(c + 1)
                ELSE {} :
            j \in { x \in 1..Len(s) :
                      /\ KeyDoAt(k, s, x) > 0
                      /\ \E y \in 1..(x - 3) :
                            LitAt(<<"c", "m">>, s, y) /\ SpaceEnd(s, y + 2) = x } }

\* the positions of the invocations "/k Do" of s
InvocationPositions(k, s) ==
    UNION { x..(KeyDoAt(k, s, x) - 1) : x \in { y \in 1..Len(s) : KeyDoAt(k, s, y) > 0 } }

\* the positions of s that hold an invocation of a key of ks, a matrix glued
\* to one, or a bracket around one
GluedPositions(ks, s) ==
    UNION { InvocationPositions(ks[n], s) \cup MatrixPositions(ks[n], s)
                \cup BracketPositions(ks[n], s) : n \in 1..Len(ks) }

\* the positions of s that hold no white space
NonSpace(s) == { x \in 1..Len(s) : ~IsSpace(s[x]) }

\* the positions of s where the literal lit starts
Occurrences(lit, s) == { x \in 1..Len(s) : LitAt(lit, s, x) }

\* C13: for every key of the set, the rewriter's output holds no "/k Do",
\* none of the text of a six-number "cm" operator that stood immediately
\* before an invocation, and none of the text of a "q ... /k Do ... Q"
\* bracket around one; the path operators "0 0 m" outside such brackets are
\* all still there.
C13_GluedOperatorsRemoved ==
    pc = "rw_once" =>
        /\ \A n \in 1..Len(keys) : ~HasInvocation(keys[n], out)
        /\ Cardinality(NonSpace(out))
              <= Cardinality(NonSpace(data) \ GluedPositions(keys, data))
        /\ Cardinality(Occurrences(<<"0", " ", "0", " ", "m">>, out))
              >= Cardinality(Occurrences(<<"0", " ", "0", " ", "m">>, data)
                                \ GluedPositions(keys, data))

(***************************************************************************)
(* The text pass on its own: remove_text_watermarks run on documents whose *)
(* page under study holds one content stream, or two, made of up to        *)
(* MaxLines lines.                                                         *)
(***************************************************************************)
MaxLines == 3

\* the lines a content stream is made of
TextLines ==
    { <<"B", "T">>,
      <<"E", "T">>,
      <<"(", "C", "a", "m", "S", "c", "a", "n", "n", "e", "r", ")", " ", "T", "j">>,
      <<"(", "h", "e", "l", "l", "o", ")", " ", "T", "j">>,
      <<>> }

\* the stream texts of at most n lines
TextStreams(n) == { JoinLines(ls) : ls \in SeqsUpTo(TextLines, n) }

\* what /Contents of the page under study can be: one stream, or an array
\* whose first entry is a fixed text block or cannot be read
TextContentChoices ==
    { [kind |-> "stream", streams |-> <<[readable |-> TRUE, text |-> t]>>] :
        t \in TextStreams(MaxLines) }
    \cup { [kind |-> "array", streams |-> <<first, [readable |-> TRUE, text |-> t]>>] :
             first \in { [readable |-> TRUE, text |-> TxtWatermarkBlock],
                         [readable |-> TRUE, text |-> TxtHelloBlock],
                         [readable |-> FALSE, text |-> <<>>] },
             t \in TextStreams(MaxLines - 1) }

\* the pages around the page under study: a page without /Contents, or a
\* page whose one stream is a text block with the signature
TextFillerPages ==
    { EmptyPage,
      [EmptyPage EXCEPT
          !.contents = [kind |-> "stream",
                        streams |-> <<[readable |-> TRUE, text |-> TxtWatermarkBlock]>>]] }

\* the documents of n pages: one page drawn from TextContentChoices, at any
\* position, among filler pages
TextDocs(n) ==
    IF n = 0 THEN {<<>>}
    ELSE UNION { { pre \o <<[EmptyPage EXCEPT !.contents = c]>> \o post :
                      pre \in [1..(k - 1) -> TextFillerPages],
                      c \in TextContentChoices,
                      post \in [1..(n - k) -> TextFillerPages] } :
                  k \in 1..n }

InitText ==
    /\ pc = "text_page"
    /\ \E n \in 0..MaxPages : \E ps \in TextDocs(n) :
          pdf = [EmptyPdf EXCEPT !.pages = ps]
    /\ orig = pdf
    /\ page_num = 1
    /\ to_remove = <<>>
    /\ removed = 0
    /\ calls = <<>>
    /\ writes = <<>>
    /\ data = <<>>
    /\ keys = <<>>
    /\ out = <<>>
    /\ out2 = <<>>
    /\ ProcessIdle

SpecText == InitText /\ [][NextText]_vars

\* the readable content streams of the loaded document, as <<page, entry>>
ReadableStreams ==
    { <<p, n>> \in (1..Len(orig.pages)) \X (1..2) :
        /\ n <= Len(orig.pages[p].contents.streams)
        /\ orig.pages[p].contents.streams[n].readable }

\* the first line after line i that is an ET line, or 0
FirstET(lines, i) ==
    LET later == { j \in (i + 1)..Len(lines) : Strip(lines[j]) = <<"E", "T">> }
    IN  IF later = {} THEN 0 ELSE CHOOSE j \in later : \A m \in later : j <= m

\* the BT ... ET blocks of lines from line i on, as <<first line, last line>>:
\* a block runs from a BT line to the first ET line after it
RECURSIVE Blocks(_, _)
Blocks(lines, i) ==
    IF i > Len(lines) THEN {}
    ELSE IF Strip(lines[i]) = <<"B", "T">> /\ FirstET(lines, i) > 0
         THEN {<<i, FirstET(lines, i)>>} \cup Blocks(lines, FirstET(lines, i) + 1)
         ELSE Blocks(lines, i + 1)

\* the blocks whose full text matches the text rule
MatchingBlocks(lines) ==
    { b \in Blocks(lines, 1) : contains_watermark(JoinLines(SubSeq(lines, b[1], b[2]))) }

\* lines without the lines of its matching blocks, in the original order
WithoutMatchingBlocks(lines) ==
    LET kept == { i \in 1..Len(lines) :
                    \A b \in MatchingBlocks(lines) : i < b[1] \/ i > b[2] }
        nth(k) == CHOOSE i \in kept : Cardinality({ j \in kept : j < i }) = k - 1
    IN  [k \in 1..Cardinality(kept) |-> lines[nth(k)]]

\* the number of matching blocks in the streams S of the loaded document
RECURSIVE CountMatching(_)
CountMatching(S) ==
    IF S = {} THEN 0
    ELSE LET x == CHOOSE y \in S : TRUE
         IN  Cardinality(MatchingBlocks(SplitLines(orig.pages[x[1]].contents.streams[x[2]].text)))
             + CountMatching(S \ {x})

\* C11: when the text pass has returned, every content stream consists of
\* its original lines, joined by line feeds, without the lines of the BT ... ET blocks whose full
\* text matches the text rule, every other line being kept verbatim and in
\* order, and the returned count is the number of those blocks.
C11_OnlyMatchingBlocksDropped ==
    pc = "text_done" =>
        /\ \A x \in ReadableStreams :
              pdf.pages[x[1]].contents.streams[x[2]].text
                  = JoinLines(WithoutMatchingBlocks(
                        SplitLines(orig.pages[x[1]].contents.streams[x[2]].text)))
        /\ removed = CountMatching(ReadableStreams)

\* the number of blocks the text pass drops from entry n of page p
DroppedFrom(p, n) ==
    ScanLines(SplitLines(orig.pages[p].contents.streams[n].text), 1, 0).removed

\* C12: the text pass writes a content stream only if it dropped at least
\* one block from that same stream, whatever it dropped from the streams it
\* processed before.
C12_WrittenOnlyIfDropped ==
    \A k \in 1..Len(writes) : DroppedFrom(writes[k].page, writes[k].stream) > 0

====
